---- MODULE Spec2Model ----
(***************************************************************************)
(* psevent: process events (fork, exec, exit) captured from the Linux      *)
(* netlink process connector.                                              *)
(*                                                                         *)
(* Two threads of control are modelled: the caller (Listen, Close, and the *)
(* consumers receiving from the four unbuffered channels) and the          *)
(* goroutine readEvents.  Buffers are sequences of bytes; every struct is  *)
(* encoded and decoded in little-endian order as encoding/binary does for  *)
(* byteOrder = binary.LittleEndian.                                        *)
(***************************************************************************)
EXTENDS Integers, Sequences, FiniteSets, TLC

VARIABLES
    caller,      \* position of the caller: "start", "listening", "failed", "closed"
    listenErr,   \* error returned by Listen ("nil" when none)
    closeErr,    \* error returned by Close ("nil" when none)
    sock,        \* NetLink.sock: "none", "open" (allocated), "closed" (released)
    seq,         \* NetLink.seq
    sent,        \* the calls of syscall.Sendto, in order: the operation sent, the
                 \* state of the socket, the buffer, and the error returned
    pc,          \* position of readEvents: "none", "check", "recv", "range",
                 \* "sendErr", "sendEv", "stopped", "panic"
    done,        \* PsEvent.done, a channel of capacity 1 (its buffered values)
    chClosed,    \* which of Fork, Exec, Exit, Error have been closed
    pending,     \* the value readEvents is blocked sending (unbuffered handoff)
    rx,          \* locals of readEvents: err, nr, buf of the last Recvfrom
                 \* (src: the envelopes the kernel encoded into buf)
    msgs,        \* local msgs of readEvents
    idx,         \* the message of msgs the range loop handles next (1-based)
    offered,     \* values sent by readEvents since it last called Recvfrom
    got,         \* values received by the consumers since then
    stopPhase,   \* progress of a Close that arrived while Recvfrom was blocked
    readsError   \* whether the consumer receives from the Error channel

vars == <<caller, listenErr, closeErr, sock, seq, sent, pc, done, chClosed,
          pending, rx, msgs, idx, offered, got, stopPhase, readsError>>

netlinkVars == <<sock, seq, sent>>
callerVars  == <<caller, listenErr, closeErr>>
logVars     == <<offered, got>>

----------------------------------------------------------------------------
(* Bounds of the model *)

\* largest number of netlink messages the kernel puts into one datagram
MaxMsgs == 2

----------------------------------------------------------------------------
(* Constants of the program *)

NLMSG_HDRLEN == 16
NLMSG_DONE == 3

CN_IDX_PROC == 1
CN_VAL_PROC == 1
PROC_CN_MCAST_LISTEN == 1
PROC_CN_MCAST_IGNORE == 2

\* Event kinds are uint32 bit masks, and PROC_EVENT_EXIT = 0x80000000 is beyond
\* the integers TLC computes with: a kind is kept as the two 16-bit halves
\* <<low, high>> of its uint32.
PROC_EVENT_FORK == <<1, 0>>
PROC_EVENT_EXEC == <<2, 0>>
PROC_EVENT_EXIT == <<0, 32768>>

\* os.Getpid() of the process that called Listen
Getpid == 4242

Channels == {"Fork", "Exec", "Exit", "Error"}

NoValue == [ch |-> "none", val |-> [none |-> TRUE]]

\* nr, err and the contents of buf before Recvfrom has returned
NoRecv == [err |-> "unset", nr |-> 0, buf |-> <<>>, src |-> <<>>]

----------------------------------------------------------------------------
(* encoding/binary with byteOrder = binary.LittleEndian *)

PutUint16(n) == <<n % 256, (n \div 256) % 256>>

PutUint32(n) ==
    <<n % 256, (n \div 256) % 256, (n \div 65536) % 256, (n \div 16777216) % 256>>

\* a uint32 given as its halves <<low, high>>
PutHalves(w) == PutUint16(w[1]) \o PutUint16(w[2])

\* the field at byte offset off (0-based) of b
Uint16(b, off) == b[off + 1] + 256 * b[off + 2]

\* (process ids, lengths and sequence numbers of the model stay below 2^31)
Uint32(b, off) ==
    b[off + 1] + 256 * b[off + 2] + 65536 * b[off + 3] + 16777216 * b[off + 4]

Halves(b, off) == <<Uint16(b, off), Uint16(b, off + 2)>>

Zeros(n) == [i \in 1..n |-> 0]

\* binary.Size of the structs of the connector protocol
SizeofCnMsg == 20
SizeofProcEventHeader == 16
SizeofForkProcEvent == 16
SizeofExecProcEvent == 8
SizeofExitProcEvent == 16
SizeofOp == 4

\* binary.Read(buf, byteOrder, data) of a struct of n bytes from a bytes.Buffer:
\* io.ReadFull takes n bytes or fails; on failure the struct is left zero and
\* the buffer has been drained.
BinaryRead(buf, n) ==
    IF Len(buf) >= n
    THEN [ok |-> TRUE,  data |-> SubSeq(buf, 1, n), rest |-> SubSeq(buf, n + 1, Len(buf))]
    ELSE [ok |-> FALSE, data |-> Zeros(n),          rest |-> <<>>]

----------------------------------------------------------------------------
(* The wire layout of the structs, as binary.Write / the kernel lay them out *)

\* syscall.NlMsghdr: Len uint32, Type uint16, Flags uint16, Seq uint32, Pid uint32
EncNlMsghdr(h) ==
    PutUint32(h.Len) \o PutUint16(h.Type) \o PutUint16(h.Flags)
        \o PutUint32(h.Seq) \o PutUint32(h.Pid)

\* cnMsg: Id {Idx, Val uint32}, Seq, Ack uint32, Len, Flags uint16
EncCnMsg(c) ==
    PutUint32(c.Idx) \o PutUint32(c.Val) \o PutUint32(c.Seq) \o PutUint32(c.Ack)
        \o PutUint16(c.Len) \o PutUint16(c.Flags)

\* procEventHeader: What, Cpu uint32, Timestamp uint64
EncProcEventHeader(h) ==
    PutHalves(h.What) \o PutUint32(h.Cpu) \o PutHalves(h.Timestamp) \o PutUint32(0)

\* forkProcEvent: ParentPid, ParentTgid, ChildPid, ChildTgid uint32
EncForkProcEvent(e) ==
    PutUint32(e.ParentPid) \o PutUint32(e.ParentTgid)
        \o PutUint32(e.ChildPid) \o PutUint32(e.ChildTgid)

\* execProcEvent: ProcessPid, ProcessTgid uint32
EncExecProcEvent(e) == PutUint32(e.ProcessPid) \o PutUint32(e.ProcessTgid)

\* exitProcEvent: ProcessPid, ProcessTgid, ExitCode, ExitSignal uint32
EncExitProcEvent(e) ==
    PutUint32(e.ProcessPid) \o PutUint32(e.ProcessTgid)
        \o PutUint32(e.ExitCode) \o PutUint32(e.ExitSignal)

DecForkProcEvent(b) ==
    [ParentPid |-> Uint32(b, 0), ParentTgid |-> Uint32(b, 4),
     ChildPid  |-> Uint32(b, 8), ChildTgid  |-> Uint32(b, 12)]

DecExecProcEvent(b) == [ProcessPid |-> Uint32(b, 0), ProcessTgid |-> Uint32(b, 4)]

DecExitProcEvent(b) ==
    [ProcessPid |-> Uint32(b, 0), ProcessTgid |-> Uint32(b, 4),
     ExitCode   |-> Uint32(b, 8), ExitSignal  |-> Uint32(b, 12)]

DecProcEventHeader(b) == [What |-> Halves(b, 0), Cpu |-> Uint32(b, 4)]

----------------------------------------------------------------------------
(* What the kernel can deliver to Recvfrom.  An envelope is described by    *)
(*   type : the netlink message type,                                      *)
(*   what : the event kind of the process-event header,                    *)
(*   tgid, tgid2 : thread-group ids (tgid2: the child of a fork),          *)
(*   tid  : offset of the raw process (thread) ids from the tgids,         *)
(*   cut  : how much of the payload is present ("full", "body": the event  *)
(*          body is cut short, "hdr": the process-event header is cut      *)
(*          short, "cn": the connector header is cut short),               *)
(*   hlen : "ok", or "long" when the header's Len runs past the datagram.  *)

UnknownWhat == {<<0, 0>>, <<4, 0>>}     \* PROC_EVENT_NONE, PROC_EVENT_UID
OtherTypes  == {2}        \* NLMSG_ERROR

Env(type, what, tgid, tgid2, tid, cut, hlen) ==
    [type |-> type, what |-> what, tgid |-> tgid, tgid2 |-> tgid2, tid |-> tid,
     cut |-> cut, hlen |-> hlen]

EnvSet ==
    {Env(NLMSG_DONE, PROC_EVENT_FORK, 100, 101, t, "full", "ok") : t \in {0, 7}}
    \cup {Env(NLMSG_DONE, PROC_EVENT_EXEC, 55, 0, t, "full", "ok") : t \in {0, 7}}
    \cup {Env(NLMSG_DONE, PROC_EVENT_EXIT, 55, 0, t, "full", "ok") : t \in {0, 7}}
    \cup {Env(NLMSG_DONE, w, 55, 0, 0, "full", "ok") : w \in UnknownWhat}
    \cup {Env(NLMSG_DONE, PROC_EVENT_FORK, 100, 101, 7, "body", "ok"),
          Env(NLMSG_DONE, PROC_EVENT_EXEC, 55, 0, 7, "body", "ok"),
          Env(NLMSG_DONE, PROC_EVENT_EXIT, 55, 0, 7, "hdr", "ok"),
          Env(NLMSG_DONE, PROC_EVENT_EXEC, 55, 0, 7, "cn", "ok"),
          Env(NLMSG_DONE, PROC_EVENT_EXIT, 55, 0, 0, "full", "long")}
    \cup {Env(t, PROC_EVENT_FORK, 100, 101, 0, "full", "ok") : t \in OtherTypes}

EventBody(d) ==
    IF d.what = PROC_EVENT_FORK
    THEN EncForkProcEvent([ParentPid |-> d.tgid + d.tid,  ParentTgid |-> d.tgid,
                           ChildPid  |-> d.tgid2 + d.tid, ChildTgid  |-> d.tgid2])
    ELSE IF d.what = PROC_EVENT_EXEC
    THEN EncExecProcEvent([ProcessPid |-> d.tgid + d.tid, ProcessTgid |-> d.tgid])
    ELSE EncExitProcEvent([ProcessPid |-> d.tgid + d.tid, ProcessTgid |-> d.tgid,
                           ExitCode |-> 256, ExitSignal |-> 17])

FullPayload(d) ==
    EncCnMsg([Idx |-> CN_IDX_PROC, Val |-> CN_VAL_PROC, Seq |-> 9, Ack |-> 0,
              Len |-> SizeofProcEventHeader + Len(EventBody(d)), Flags |-> 0])
        \o EncProcEventHeader([What |-> d.what, Cpu |-> 1, Timestamp |-> <<513, 7>>])
        \o EventBody(d)

Payload(d) ==
    LET full == FullPayload(d)
    IN  CASE d.cut = "full" -> full
          [] d.cut = "body" -> SubSeq(full, 1, Len(full) - 3)
          [] d.cut = "hdr"  -> SubSeq(full, 1, SizeofCnMsg + 6)
          [] d.cut = "cn"   -> SubSeq(full, 1, SizeofCnMsg - 8)

\* netlink pads every message to a multiple of 4 bytes (NLMSG_ALIGNTO)
nlmAlignOf(n) == ((n + 3) \div 4) * 4

EncEnvelope(d) ==
    LET data == Payload(d)
        hl   == NLMSG_HDRLEN + Len(data)
    IN  EncNlMsghdr([Len |-> IF d.hlen = "long" THEN hl + 64 ELSE hl,
                     Type |-> d.type, Flags |-> 0, Seq |-> 0, Pid |-> 0])
            \o data \o Zeros(nlmAlignOf(hl) - hl)

RECURSIVE EncFrame(_)
EncFrame(ds) == IF ds = <<>> THEN <<>> ELSE EncEnvelope(Head(ds)) \o EncFrame(Tail(ds))

\* the sequences of 1..n elements of S
RECURSIVE SeqsUpTo(_, _)
SeqsUpTo(S, n) ==
    IF n = 0 THEN {<<>>}
    ELSE LET shorter == SeqsUpTo(S, n - 1)
         IN  shorter \cup {Append(s, e) : s \in shorter, e \in S}

FrameSrcs == SeqsUpTo(EnvSet, MaxMsgs) \ {<<>>}

\* the results of one syscall.Recvfrom: a transport error, a datagram shorter
\* than a netlink header, or a datagram holding netlink messages
RecvErrnos == {"ENOBUFS", "EINTR"}

RecvResults(sockState) ==
    {[err |-> e, nr |-> -1, buf |-> <<>>, src |-> <<>>] :
        e \in RecvErrnos \cup (IF sockState = "closed" THEN {"EBADF"} ELSE {})}
    \cup {[err |-> "nil", nr |-> n, buf |-> SubSeq(EncFrame(<<d>>), 1, n), src |-> <<>>] :
            n \in {0, 12}, d \in {Env(NLMSG_DONE, PROC_EVENT_FORK, 100, 101, 0, "full", "ok")}}
    \cup {[err |-> "nil", nr |-> Len(EncFrame(ds)), buf |-> EncFrame(ds), src |-> ds] :
            ds \in FrameSrcs}

----------------------------------------------------------------------------
(* readEvents: parsing and dispatch *)

\* syscall.ParseNetlinkMessage(buf[:nr]); readEvents drops its error, and on
\* an error the returned slice is nil.  (A Len of 2^31 or more, its top byte
\* being 128 or more, is longer than any buffer.)
RECURSIVE ParseNetlinkMessage(_)
ParseNetlinkMessage(b) ==
    IF Len(b) < NLMSG_HDRLEN THEN [ok |-> TRUE, msgs |-> <<>>]
    ELSE LET hLen == Uint32(b, 0)
             l    == nlmAlignOf(hLen)
         IN  IF b[4] >= 128 \/ hLen < NLMSG_HDRLEN \/ l > Len(b)
             THEN [ok |-> FALSE, msgs |-> <<>>]
             ELSE LET m    == [Type |-> Uint16(b, 4),
                               Data |-> SubSeq(b, NLMSG_HDRLEN + 1, hLen)]
                      rest == ParseNetlinkMessage(SubSeq(b, l + 1, Len(b)))
                  IN  IF rest.ok
                      THEN [ok |-> TRUE, msgs |-> <<m>> \o rest.msgs]
                      ELSE [ok |-> FALSE, msgs |-> <<>>]

\* a variant of handleEvent: the raw process ids are reported
handleEventPid(data) ==
    LET rMsg == BinaryRead(data, SizeofCnMsg)
        rHdr == BinaryRead(rMsg.rest, SizeofProcEventHeader)
        hdr  == DecProcEventHeader(rHdr.data)
        buf  == rHdr.rest
    IN  CASE hdr.What = PROC_EVENT_FORK ->
               LET event == DecForkProcEvent(BinaryRead(buf, SizeofForkProcEvent).data)
               IN  <<[ch |-> "Fork", val |-> [ParentPid |-> event.ParentPid,
                                              ChildPid  |-> event.ChildPid]]>>
          [] hdr.What = PROC_EVENT_EXEC ->
               LET event == DecExecProcEvent(BinaryRead(buf, SizeofExecProcEvent).data)
               IN  <<[ch |-> "Exec", val |-> [Pid |-> event.ProcessPid]]>>
          [] hdr.What = PROC_EVENT_EXIT ->
               LET event == DecExitProcEvent(BinaryRead(buf, SizeofExitProcEvent).data)
               IN  <<[ch |-> "Exit", val |-> [Pid |-> event.ProcessPid]]>>
          [] OTHER -> <<>>

\* a variant of handleEvent: a kind that is none of the three is reported as
\* an error
handleEventDefaultError(data) ==
    LET rMsg == BinaryRead(data, SizeofCnMsg)
        rHdr == BinaryRead(rMsg.rest, SizeofProcEventHeader)
        hdr  == DecProcEventHeader(rHdr.data)
        buf  == rHdr.rest
    IN  CASE hdr.What = PROC_EVENT_FORK ->
               LET event == DecForkProcEvent(BinaryRead(buf, SizeofForkProcEvent).data)
               IN  <<[ch |-> "Fork", val |-> [ParentPid |-> event.ParentTgid,
                                              ChildPid  |-> event.ChildTgid]]>>
          [] hdr.What = PROC_EVENT_EXEC ->
               LET event == DecExecProcEvent(BinaryRead(buf, SizeofExecProcEvent).data)
               IN  <<[ch |-> "Exec", val |-> [Pid |-> event.ProcessTgid]]>>
          [] hdr.What = PROC_EVENT_EXIT ->
               LET event == DecExitProcEvent(BinaryRead(buf, SizeofExitProcEvent).data)
               IN  <<[ch |-> "Exit", val |-> [Pid |-> event.ProcessTgid]]>>
          [] OTHER -> <<[ch |-> "Error", val |-> [err |-> "EINVAL"]]>>

\* handleEvent(data): the channel sends it performs (none or one).  The
\* results of binary.Read are dropped: a struct that could not be read stays zero.
handleEvent(data) ==
    LET rMsg == BinaryRead(data, SizeofCnMsg)
        rHdr == BinaryRead(rMsg.rest, SizeofProcEventHeader)
        hdr  == DecProcEventHeader(rHdr.data)
        buf  == rHdr.rest
    IN  CASE hdr.What = PROC_EVENT_FORK ->
               LET event == DecForkProcEvent(BinaryRead(buf, SizeofForkProcEvent).data)
               IN  <<[ch |-> "Fork", val |-> [ParentPid |-> event.ParentTgid,
                                              ChildPid  |-> event.ChildTgid]]>>
          [] hdr.What = PROC_EVENT_EXEC ->
               LET event == DecExecProcEvent(BinaryRead(buf, SizeofExecProcEvent).data)
               IN  <<[ch |-> "Exec", val |-> [Pid |-> event.ProcessTgid]]>>
          [] hdr.What = PROC_EVENT_EXIT ->
               LET event == DecExitProcEvent(BinaryRead(buf, SizeofExitProcEvent).data)
               IN  <<[ch |-> "Exit", val |-> [Pid |-> event.ProcessTgid]]>>
          [] OTHER -> <<>>

\* a variant of dispatch: events are filtered by the watch table (isWatching),
\* which nothing ever fills
isWatching(e) == FALSE

dispatchWatched(m) ==
    IF m.Type = NLMSG_DONE THEN SelectSeq(handleEvent(m.Data), isWatching) ELSE <<>>

\* the sends of the range loop for msgs[i]: only NLMSG_DONE messages are handled
dispatch(m) == IF m.Type = NLMSG_DONE THEN handleEvent(m.Data) ELSE <<>>

----------------------------------------------------------------------------
(* NetLink: bind, send, close *)

SendErrnos == {"nil", "ECONNREFUSED"}
SocketErrnos == {"nil", "EPROTONOSUPPORT"}
BindErrnos == {"nil", "EPERM"}

\* a variant of sendBuf: the length of the envelope leaves out the operation
sendBufShortLen(s, op) ==
    EncNlMsghdr([Len |-> NLMSG_HDRLEN + SizeofCnMsg, Type |-> NLMSG_DONE, Flags |-> 0,
                 Seq |-> s, Pid |-> Getpid])
        \o EncCnMsg([Idx |-> CN_IDX_PROC, Val |-> CN_VAL_PROC, Seq |-> 0, Ack |-> 0,
                     Len |-> SizeofOp, Flags |-> 0])
        \o PutUint32(op)

\* the buffer NetLink.send(op) hands to Sendto when listener.seq is s (already
\* incremented): NetLinkMessage{Header, Data} followed by op
sendBuf(s, op) ==
    LET plen == SizeofCnMsg + SizeofOp
    IN  EncNlMsghdr([Len |-> NLMSG_HDRLEN + plen, Type |-> NLMSG_DONE, Flags |-> 0,
                     Seq |-> s, Pid |-> Getpid])
            \o EncCnMsg([Idx |-> CN_IDX_PROC, Val |-> CN_VAL_PROC, Seq |-> 0, Ack |-> 0,
                         Len |-> SizeofOp, Flags |-> 0])
            \o PutUint32(op)

\* a variant of send: the frame is built before listener.seq++
sendThenIncr(nl, op, sendErr) ==
    [sock |-> nl.sock,
     seq  |-> nl.seq + 1,
     sent |-> Append(nl.sent, [op |-> op, sock |-> nl.sock,
                               buf |-> sendBuf(nl.seq, op), err |-> sendErr]),
     err  |-> sendErr]

\* NetLink.send(op) on the listener state nl, Sendto returning sendErr
\* (listener.seq++ wraps at 2^32, far beyond the sends of one listener)
send(nl, op, sendErr) ==
    [sock |-> nl.sock,
     seq  |-> nl.seq + 1,
     sent |-> Append(nl.sent, [op |-> op, sock |-> nl.sock,
                               buf |-> sendBuf(nl.seq + 1, op), err |-> sendErr]),
     err  |-> sendErr]

\* NetLink.bind(), with the results of syscall.Socket, syscall.Bind and Sendto
bind(nl, sockErr, bindErr, sendErr) ==
    IF sockErr # "nil" THEN [nl EXCEPT !.err = sockErr]
    ELSE IF bindErr # "nil" THEN [nl EXCEPT !.sock = "open", !.err = bindErr]
    ELSE send([nl EXCEPT !.sock = "open"], PROC_CN_MCAST_LISTEN, sendErr)

\* a variant of createListener: the error of bind is dropped
createListenerNoErr(sockErr, bindErr, sendErr) ==
    [bind([sock |-> "none", seq |-> 0, sent |-> <<>>, err |-> "nil"],
          sockErr, bindErr, sendErr) EXCEPT !.err = "nil"]

\* createListener(): nl := &NetLink{}; err := nl.bind()
createListener(sockErr, bindErr, sendErr) ==
    bind([sock |-> "none", seq |-> 0, sent |-> <<>>, err |-> "nil"],
         sockErr, bindErr, sendErr)

\* a variant of close: the error of send is returned before the socket is closed
closeEarlyReturn(nl, sendErr) ==
    IF sendErr # "nil"
    THEN send(nl, PROC_CN_MCAST_IGNORE, sendErr)
    ELSE [send(nl, PROC_CN_MCAST_IGNORE, sendErr) EXCEPT !.sock = "closed"]

\* NetLink.close(): send(_PROC_CN_MCAST_IGNORE), then syscall.Close(sock)
close(nl, sendErr) ==
    [send(nl, PROC_CN_MCAST_IGNORE, sendErr) EXCEPT !.sock = "closed"]

----------------------------------------------------------------------------
(* The caller *)

Init ==
    /\ caller = "start"
    /\ listenErr = "nil"
    /\ closeErr = "nil"
    /\ sock = "none"
    /\ seq = 0
    /\ sent = <<>>
    /\ pc = "none"
    /\ done = <<>>
    /\ chClosed = [c \in Channels |-> FALSE]
    /\ pending = NoValue
    /\ rx = NoRecv
    /\ msgs = <<>>
    /\ idx = 1
    /\ offered = <<>>
    /\ got = <<>>
    /\ stopPhase = "none"
    /\ readsError \in BOOLEAN

\* Listen(): createListener, then the channels are made and readEvents started
Listen ==
    /\ caller = "start"
    /\ \E sockErr \in SocketErrnos, bindErr \in BindErrnos, sendErr \in SendErrnos :
         LET nl == createListener(sockErr, bindErr, sendErr)
         IN  /\ sock' = nl.sock
             /\ seq' = nl.seq
             /\ sent' = nl.sent
             /\ listenErr' = nl.err
             /\ IF nl.err # "nil"
                THEN caller' = "failed" /\ pc' = "none"
                ELSE caller' = "listening" /\ pc' = "check"
    /\ UNCHANGED <<closeErr, done, chClosed, pending, rx, msgs, idx, offered, got,
                   stopPhase, readsError>>

\* a variant of Close: the close of the socket ends a Recvfrom in flight and
\* takes readEvents to its stop check
CloseInterrupts ==
    /\ caller = "listening"
    /\ \E sendErr \in SendErrnos :
         LET nl == close([sock |-> sock, seq |-> seq, sent |-> sent, err |-> "nil"],
                         sendErr)
         IN  /\ sock' = nl.sock
             /\ seq' = nl.seq
             /\ sent' = nl.sent
             /\ closeErr' = nl.err
    /\ caller' = "closed"
    /\ pc' = IF pc = "recv" THEN "check" ELSE pc
    /\ stopPhase' = IF pc = "recv" THEN "requested" ELSE stopPhase
    /\ UNCHANGED <<listenErr, done, chClosed, pending, rx, msgs, idx, offered, got,
                   readsError>>

\* a variant of Close: Close closes the four channels itself
CloseFinishes ==
    /\ caller = "listening"
    /\ \E sendErr \in SendErrnos :
         LET nl == close([sock |-> sock, seq |-> seq, sent |-> sent, err |-> "nil"],
                         sendErr)
         IN  /\ sock' = nl.sock
             /\ seq' = nl.seq
             /\ sent' = nl.sent
             /\ closeErr' = nl.err
    /\ caller' = "closed"
    /\ chClosed' = [c \in Channels |-> TRUE]
    /\ stopPhase' = IF pc = "recv" THEN "requested" ELSE stopPhase
    /\ UNCHANGED <<listenErr, pc, done, pending, rx, msgs, idx, offered, got,
                   readsError>>

\* PsEvent.Close(): return p.listener.close()
Close ==
    /\ caller = "listening"
    /\ \E sendErr \in SendErrnos :
         LET nl == close([sock |-> sock, seq |-> seq, sent |-> sent, err |-> "nil"],
                         sendErr)
         IN  /\ sock' = nl.sock
             /\ seq' = nl.seq
             /\ sent' = nl.sent
             /\ closeErr' = nl.err
    /\ caller' = "closed"
    /\ stopPhase' = IF pc = "recv" THEN "requested" ELSE stopPhase
    /\ UNCHANGED <<listenErr, pc, done, chClosed, pending, rx, msgs, idx, offered, got,
                   readsError>>

----------------------------------------------------------------------------
(* The goroutine readEvents *)

\* finish(): close(p.Fork); close(p.Exec); close(p.Exit); close(p.Error)
finish == [c \in Channels |-> TRUE]

\* the top of the for loop: if p.isDone() { return }.  isDone receives from
\* done without blocking; when a value is there it runs finish and returns it.
\* When the loop goes on to Recvfrom, what the last Recvfrom returned is dead
\* (nr, err and buf are overwritten) and the logs start afresh.
isDone ==
    /\ pc = "check"
    /\ IF done # <<>>
       THEN /\ done' = Tail(done)
            /\ chClosed' = finish
            /\ pc' = IF \E c \in Channels : chClosed[c] THEN "panic"  \* close of a closed channel
                     ELSE IF Head(done) THEN "stopped" ELSE "recv"
       ELSE /\ pc' = "recv"
            /\ UNCHANGED <<done, chClosed>>
    /\ IF pc' = "recv"
       THEN rx' = NoRecv /\ offered' = <<>> /\ got' = <<>>
       ELSE UNCHANGED <<rx, offered, got>>
    /\ stopPhase' = IF stopPhase = "returned" THEN "checked" ELSE stopPhase
    /\ UNCHANGED <<callerVars, netlinkVars, pending, msgs, idx, readsError>>

\* a variant of afterError: return after the error has been sent
afterErrorReturn == "stopped"

\* continue after p.Error <- err: back to the top of the for loop
afterError == "check"

\* a variant of chanSend: Error made with a buffer, so that a send of an error
\* returns at once with the error left in the buffer
chanSendBuffered(v, blockedAt, log) ==
    IF v.ch = "Error"
    THEN pc' = afterError /\ pending' = v /\ offered' = Append(log, v)
    ELSE pc' = blockedAt /\ pending' = v /\ offered' = Append(log, v)

\* a variant of chanSend: the send of an event is handed to a goroutine of its
\* own and readEvents does not wait for the consumer
chanSendAsync(v, blockedAt, log) ==
    /\ pc' = (IF blockedAt = "sendEv" THEN "range" ELSE blockedAt)
    /\ pending' = v
    /\ offered' = Append(log, v)

\* a variant of chanSend: a select with a default case, so that a value no
\* consumer is waiting for is dropped and readEvents goes on
chanSendDrop(v, blockedAt, log) ==
    /\ pc' = (IF blockedAt = "sendEv" THEN "range" ELSE afterError)
    /\ pending' = pending
    /\ offered' = Append(log, v)

\* a channel send by readEvents, log being the sends so far: it blocks until a
\* consumer receives (the channels are unbuffered); a send on a closed channel
\* panics
chanSend(v, blockedAt, log) ==
    IF chClosed[v.ch]
    THEN pc' = "panic" /\ pending' = pending /\ offered' = log
    ELSE pc' = blockedAt /\ pending' = v /\ offered' = Append(log, v)

\* a variant of tooShort: only an empty datagram is refused
tooShortEmpty(nr) == nr < 1

\* if nr < syscall.NLMSG_HDRLEN
tooShort(nr) == nr < NLMSG_HDRLEN

\* a variant of Recvfrom: readEvents closes the socket itself when the
\* receive fails
RecvfromReleases ==
    /\ pc = "recv"
    /\ \E r \in RecvResults(sock) :
         /\ rx' = r
         /\ got' = got
         /\ IF r.err # "nil"
            THEN /\ chanSend([ch |-> "Error", val |-> [err |-> r.err]], "sendErr", offered)
                 /\ sock' = "closed"
                 /\ UNCHANGED <<msgs, idx>>
            ELSE IF tooShort(r.nr)
            THEN /\ chanSend([ch |-> "Error", val |-> [err |-> "EINVAL"]], "sendErr", offered)
                 /\ UNCHANGED <<sock, msgs, idx>>
            ELSE /\ msgs' = ParseNetlinkMessage(SubSeq(r.buf, 1, r.nr)).msgs
                 /\ idx' = 1
                 /\ pc' = "range"
                 /\ UNCHANGED <<sock, pending, offered>>
    /\ stopPhase' = IF stopPhase = "requested" THEN "returned" ELSE stopPhase
    /\ UNCHANGED <<callerVars, seq, sent, done, chClosed, readsError>>

\* syscall.Recvfrom returns: nr, _, err; then the two error checks, or
\* msgs, _ := syscall.ParseNetlinkMessage(buf[:nr])
Recvfrom ==
    /\ pc = "recv"
    /\ \E r \in RecvResults(sock) :
         /\ rx' = r
         /\ got' = got
         /\ IF r.err # "nil"
            THEN /\ chanSend([ch |-> "Error", val |-> [err |-> r.err]], "sendErr", offered)
                 /\ UNCHANGED <<msgs, idx>>
            ELSE IF tooShort(r.nr)
            THEN /\ chanSend([ch |-> "Error", val |-> [err |-> "EINVAL"]], "sendErr", offered)
                 /\ UNCHANGED <<msgs, idx>>
            ELSE /\ msgs' = ParseNetlinkMessage(SubSeq(r.buf, 1, r.nr)).msgs
                 /\ idx' = 1
                 /\ pc' = "range"
                 /\ UNCHANGED <<pending, offered>>
    /\ stopPhase' = IF stopPhase = "requested" THEN "returned" ELSE stopPhase
    /\ UNCHANGED <<callerVars, netlinkVars, done, chClosed, readsError>>

\* for _, m := range msgs: one iteration, up to the channel send of
\* handleEvent; idx is the message the loop handles next
rangeMsgs ==
    /\ pc = "range"
    /\ IF idx > Len(msgs)
       THEN /\ pc' = "check"
            /\ msgs' = <<>>
            /\ idx' = 1
            /\ UNCHANGED <<pending, offered>>
       ELSE LET sends == dispatch(msgs[idx])
            IN  IF sends = <<>>
                THEN /\ idx' = idx + 1
                     /\ UNCHANGED <<pc, msgs, pending, offered>>
                ELSE /\ chanSend(sends[1], "sendEv", offered)
                     /\ idx' = idx + 1
                     /\ UNCHANGED msgs
    /\ UNCHANGED <<callerVars, netlinkVars, done, chClosed, rx, got, stopPhase,
                   readsError>>

----------------------------------------------------------------------------
(* The consumers *)

\* a consumer receives from channel c the value readEvents is blocked sending;
\* readEvents goes on: after an error to the top of the loop, after an event to
\* the next message of the range loop
Receive(c) ==
    /\ pc \in {"sendErr", "sendEv"}
    /\ pending.ch = c
    /\ c = "Error" => readsError
    /\ got' = Append(got, pending)
    /\ pending' = NoValue
    /\ pc' = IF pc = "sendErr" THEN afterError ELSE "range"
    /\ UNCHANGED <<callerVars, netlinkVars, done, chClosed, rx, msgs, idx, offered,
                   stopPhase, readsError>>

----------------------------------------------------------------------------

Next ==
    \/ Listen
    \/ Close
    \/ isDone
    \/ Recvfrom
    \/ rangeMsgs
    \/ \E c \in Channels : Receive(c)

Spec == Init /\ [][Next]_vars

\* the steps that move readEvents forward: its own, and a consumer's receive
\* of the value it is blocked sending
readEventsStep == isDone \/ Recvfrom \/ rangeMsgs \/ \E c \in Channels : Receive(c)

----------------------------------------------------------------------------
(* Properties *)

AllClosed == \A c \in Channels : chClosed[c]

\* C1: when Close is called while readEvents is blocked in Recvfrom, then once
\* that Recvfrom has returned and the loop has made its next stop check, the
\* four channels are closed and readEvents has returned (it delivers nothing
\* more).
C1_StopAfterNextReceive ==
    stopPhase = "checked" => AllClosed /\ pc = "stopped"

\* C2: once Close has returned, the done channel holds the stop request, or
\* readEvents has consumed it (and so has run finish).
C2_CloseSetsDone ==
    caller = "closed" => (Len(done) = 1 \/ AllClosed)

\* C3 (as stated): with a consumer that never receives from Error, readEvents
\* still gets past the send of an error to the events that arrive after it:
\* where it is sending an error, a step of readEvents is possible.
C3_EventsFlowWithoutErrorReader ==
    (~readsError /\ pc = "sendErr") => ENABLED readEventsStep

\* C3 (amended): while an error sent on Error has not been received, readEvents
\* does nothing: no further Recvfrom, no event offered or delivered; and it
\* leaves the send only by a consumer receiving that error.  With a consumer
\* that never receives from Error the loop stays blocked for good.
C3_BlockedUntilErrorTaken ==
    [][/\ (pending.ch = "Error" /\ ~readsError)
            => (pending' = pending /\ pc' = pc /\ rx' = rx /\ got' = got
                /\ offered' = offered)
       /\ (pending.ch = "Error" /\ pending' # pending)
            => (pending' = NoValue /\ got' = Append(got, pending) /\ rx' = rx
                /\ offered' = offered)]_vars

C3_Witness ==
    /\ ~readsError
    /\ pc = "sendErr"
    /\ pending = [ch |-> "Error", val |-> [err |-> "ENOBUFS"]]
    /\ caller = "closed"

\* C4: a Recvfrom that fails, or returns fewer than NLMSG_HDRLEN bytes, makes
\* readEvents send the error on Error; when the error is received the loop is
\* back at the stop check, and from there at the next Recvfrom.  readEvents
\* returns only from the stop check with a value on done, and never panics.
C4_ReceiveErrorNotFatal ==
    [][/\ (pc = "recv" /\ pc' # "recv" /\ (rx'.err # "nil" \/ rx'.nr < NLMSG_HDRLEN))
            => (pc' = "sendErr" /\ pending'.ch = "Error")
       /\ (pc = "sendErr" /\ pc' # "sendErr")
            => (pc' = "check" /\ got' = Append(got, pending))
       /\ (pc = "check" /\ pc' # "check" /\ done = <<>>) => pc' = "recv"
       /\ (pc # "stopped" /\ pc' = "stopped") => (pc = "check" /\ done # <<>>)
       /\ pc' # "panic"]_vars

C4_Witness ==
    /\ pc = "check"
    /\ rx.err = "ENOBUFS"
    /\ got = <<[ch |-> "Error", val |-> [err |-> "ENOBUFS"]]>>


\* Helpers over the envelopes the kernel encoded into the datagram (rx.src)

KnownWhat == {PROC_EVENT_FORK, PROC_EVENT_EXEC, PROC_EVENT_EXIT}

QueueOf(what) ==
    CASE what = PROC_EVENT_FORK -> "Fork"
      [] what = PROC_EVENT_EXEC -> "Exec"
      [] what = PROC_EVENT_EXIT -> "Exit"

\* every envelope's header length is that of the envelope: msgs[i] is src[i]
AllOk(src) == \A i \in 1..Len(src) : src[i].hlen = "ok"

\* a data-complete envelope with a complete payload of a known kind
FullKnown(d) ==
    d.type = NLMSG_DONE /\ d.hlen = "ok" /\ d.cut = "full" /\ d.what \in KnownWhat

\* a data-complete envelope with a complete payload of another kind
FullUnknown(d) ==
    d.type = NLMSG_DONE /\ d.hlen = "ok" /\ d.cut = "full" /\ d.what \notin KnownWhat

\* an envelope from which handleEvent decodes an event
Decodes(d) ==
    d.type = NLMSG_DONE /\ d.what \in KnownWhat /\ d.cut \in {"full", "body"}

\* the event of a complete payload: the thread-group ids
EventOf(d) ==
    IF d.what = PROC_EVENT_FORK
    THEN [ch |-> "Fork", val |-> [ParentPid |-> d.tgid, ChildPid |-> d.tgid2]]
    ELSE [ch |-> QueueOf(d.what), val |-> [Pid |-> d.tgid]]

Received == rx.err = "nil" /\ rx.src # <<>>

\* C5: the consumers receive the events in the order readEvents decoded them,
\* which is the order of the envelopes in the datagram: what has been received
\* is a prefix of what has been sent, at most one send is outstanding, the
\* i-th send is on the queue of the i-th envelope that decodes to an event, and
\* nothing is outstanding when the loop goes back to the stop check and the
\* next Recvfrom (so the events of one datagram precede those of the next).
C5_DeliveredInDecodeOrder ==
    /\ Len(got) <= Len(offered)
    /\ Len(offered) <= Len(got) + 1
    /\ got = SubSeq(offered, 1, Len(got))
    /\ pc \in {"check", "recv", "range"} => (got = offered /\ pending = NoValue)
    /\ (Received /\ AllOk(rx.src)) =>
          LET dec == SelectSeq(rx.src, Decodes)
          IN  /\ Len(offered) <= Len(dec)
              /\ \A i \in 1..Len(offered) : offered[i].ch = QueueOf(dec[i].what)
              /\ pc = "check" => Len(got) = Len(dec)

C5_Witness ==
    /\ pc = "check"
    /\ got = <<[ch |-> "Exec", val |-> [Pid |-> 55]], [ch |-> "Exit", val |-> [Pid |-> 55]]>>

C7_PidIsTgid ==
    (pc = "sendEv" /\ Received /\ AllOk(rx.src) /\ rx.src[idx - 1].cut = "full") =>
        pending = EventOf(rx.src[idx - 1])

C7_Witness ==
    /\ pc = "sendEv"
    /\ Received
    /\ AllOk(rx.src)
    /\ rx.src[idx - 1].cut = "full"
    /\ rx.src[idx - 1].tid # 0
    /\ pending = [ch |-> "Fork", val |-> [ParentPid |-> 100, ChildPid |-> 101]]

\* C8: a Recvfrom that returns fewer than NLMSG_HDRLEN bytes gives one EINVAL
\* on Error and no event: EINVAL is the only value sent, and the loop is back
\* at the stop check once it has been received.
ShortRecv == rx.err = "nil" /\ rx.nr < NLMSG_HDRLEN

C8_ShortReceive ==
    ShortRecv =>
        /\ offered = <<[ch |-> "Error", val |-> [err |-> "EINVAL"]]>>
        /\ \/ pc = "sendErr" /\ pending = offered[1] /\ got = <<>>
           \/ pc = "check" /\ pending = NoValue /\ got = offered

C8_Witness ==
    /\ ShortRecv
    /\ rx.nr = 12
    /\ pc = "check"
    /\ got = <<[ch |-> "Error", val |-> [err |-> "EINVAL"]]>>

\* C9: a data-complete envelope with a complete payload whose kind is none of
\* fork, exec, exit is passed over: the range loop goes to the next message
\* with nothing sent on any channel.
C9_UnknownKindDropped ==
    [][(/\ pc = "range"
        /\ Received
        /\ AllOk(rx.src)
        /\ idx <= Len(rx.src)
        /\ FullUnknown(rx.src[idx])
        /\ idx' # idx)
        => (/\ idx' = idx + 1
            /\ pc' = "range"
            /\ pending' = pending
            /\ offered' = offered
            /\ got' = got)]_vars

C9_Witness ==
    /\ pc = "range"
    /\ Received
    /\ AllOk(rx.src)
    /\ Len(rx.src) = 2
    /\ idx = 3
    /\ FullUnknown(rx.src[2])
    /\ got = <<[ch |-> "Exit", val |-> [Pid |-> 55]]>>

\* C10: when Listen has returned an error, the socket that bind allocated is
\* not left open.
C10_NoLeakOnFailedOpen ==
    caller = "failed" => sock # "open"

Last(s) == s[Len(s)]

\* C11: Close sends the ignore frame on the open socket and then releases the
\* socket, whether or not the send succeeded, and returns the error of the
\* send; a released socket is not released or sent on again.
C11_CloseSendsThenReleases ==
    [][/\ (caller = "listening" /\ caller' = "closed")
            => (/\ sock = "open"
                /\ sock' = "closed"
                /\ Len(sent') = Len(sent) + 1
                /\ SubSeq(sent', 1, Len(sent)) = sent
                /\ Last(sent').op = PROC_CN_MCAST_IGNORE
                /\ Last(sent').sock = "open"
                /\ closeErr' = Last(sent').err)
       /\ sock = "closed" => (sock' = "closed" /\ sent' = sent)
       /\ (sock # "closed" /\ sock' = "closed") => (caller = "listening" /\ caller' = "closed")]_vars

C11_Witness ==
    /\ caller = "closed"
    /\ sock = "closed"
    /\ Last(sent).op = PROC_CN_MCAST_IGNORE
    /\ Last(sent).err = "ECONNREFUSED"
    /\ closeErr = "ECONNREFUSED"

\* C12: when syscall.Socket, syscall.Bind or the Sendto of the listen frame
\* fails, Listen returns that error, readEvents is not started, and nothing is
\* ever sent on or received from the four channels.
OpenFailed == sock = "none" \/ sent = <<>> \/ sent[1].err # "nil"

C12_FailedOpenStartsNothing ==
    /\ (caller # "start" /\ OpenFailed) => caller = "failed"
    /\ caller = "failed" =>
          /\ OpenFailed
          /\ listenErr # "nil"
          /\ sock = "none" => listenErr \in SocketErrnos
          /\ (sock # "none" /\ sent = <<>>) => listenErr \in BindErrnos
          /\ sent # <<>> => listenErr = sent[1].err
          /\ pc = "none"
          /\ pending = NoValue /\ offered = <<>> /\ got = <<>> /\ rx = NoRecv
    /\ caller \in {"listening", "closed"} => listenErr = "nil"

C12_Witness ==
    /\ caller = "failed"
    /\ Len(sent) = 1
    /\ listenErr = "ECONNREFUSED"
    /\ pc = "none"

\* C13: a data-complete envelope whose payload is cut short gives no event and
\* one error on Error, and the other envelopes of the datagram are handled as
\* usual: when the datagram has been handled, the events received are those of
\* the complete payloads of a known kind, and the errors received are one for
\* each payload cut short.
CutShort(d) == d.type = NLMSG_DONE /\ d.cut # "full"

C13_TruncatedPayloadSkipped ==
    (pc = "check" /\ Received /\ AllOk(rx.src)) =>
        /\ Cardinality({j \in 1..Len(got) : got[j].ch # "Error"})
             = Cardinality({i \in 1..Len(rx.src) : FullKnown(rx.src[i])})
        /\ Cardinality({j \in 1..Len(got) : got[j].ch = "Error"})
             = Cardinality({i \in 1..Len(rx.src) : CutShort(rx.src[i])})

\* C14 (as stated): after construction the caller's thread does not send on or
\* release the socket while readEvents is running or blocked in Recvfrom: the
\* socket and the frames sent change only while readEvents has not started or
\* has returned.
C14_SocketOnlyInLoop ==
    [][(caller # "start" /\ (sock' # sock \/ sent' # sent))
          => pc \in {"none", "stopped"}]_vars

\* C14 (amended): after construction readEvents only receives from the socket;
\* the socket is sent on and released only by the caller, in the one step of
\* Close, which leaves readEvents where it is, a Recvfrom in flight included;
\* a step of readEvents or of a consumer leaves the socket, the counter and the
\* frames sent alone.
C14_SocketSharedWithClose ==
    [][/\ (caller # "start" /\ (sock' # sock \/ seq' # seq \/ sent' # sent))
            => /\ caller = "listening" /\ caller' = "closed"
               /\ Len(sent') = Len(sent) + 1
               /\ UNCHANGED <<rx, msgs, idx, pending, offered, got>>
       /\ (rx' # rx \/ pc' # pc) /\ caller # "start"
            => UNCHANGED <<sock, seq, sent>>]_vars

\* Close has sent and released the socket while readEvents is blocked in
\* Recvfrom on it
C14_Witness == caller = "closed" /\ sock = "closed" /\ Len(sent) = 2 /\ pc = "recv"
                   /\ stopPhase = "requested"

\* C16: the stop check runs only between receives, once before each: a
\* Recvfrom in flight ends only by its own return (a datagram or an error),
\* never by a step of the caller; readEvents enters Recvfrom, or returns, only
\* from the stop check; and after a stop asked for while a Recvfrom is in
\* flight, the stop check runs only once that Recvfrom has returned.
C16_StopCheckedBetweenReceives ==
    [][/\ (pc = "recv" /\ pc' # "recv")
            => rx = NoRecv /\ rx' # NoRecv /\ UNCHANGED <<callerVars, netlinkVars>>
       /\ (pc = "recv" /\ caller' # caller) => pc' = "recv" /\ rx' = rx
       /\ (pc' = "recv" /\ pc # "recv") => pc = "check"
       /\ (pc' = "stopped" /\ pc # "stopped") => pc = "check"
       /\ (stopPhase = "requested" /\ stopPhase' # stopPhase)
            => pc = "recv" /\ stopPhase' = "returned" /\ rx' # NoRecv
       /\ (stopPhase = "returned" /\ stopPhase' # stopPhase)
            => pc = "check" /\ stopPhase' = "checked"
       /\ (stopPhase = "requested" => pc = "recv")]_vars

\* Close was called while a Recvfrom was in flight, that Recvfrom has returned
\* and the stop check after it has run
C16_Witness == caller = "closed" /\ stopPhase = "checked"

\* C17: a send is a blocking handoff: while a value offered by readEvents has
\* not been taken, readEvents receives nothing more from the socket, handles no
\* further message and offers nothing else; the only change to the value is a
\* consumer taking it; a value is offered only when none is outstanding; and
\* every value offered has been taken or is the one outstanding.
C17_BlockingHandoff ==
    [][/\ pending # NoValue
            => /\ pc \in {"sendErr", "sendEv"}
               /\ UNCHANGED <<rx, msgs, idx, offered>>
               /\ pending' # pending
                    => pending' = NoValue /\ got' = Append(got, pending)
       /\ (offered' # offered /\ offered' # <<>>)
            => /\ pending = NoValue
               /\ pending' # NoValue
               /\ offered' = Append(offered, pending')
               /\ pc' \in {"sendErr", "sendEv"}
       /\ offered = (IF pending = NoValue THEN got ELSE Append(got, pending))]_vars

\* readEvents is blocked sending a fork event nobody has taken yet, with a
\* further message of the datagram still to handle
C17_Witness == pc = "sendEv" /\ pending.ch = "Fork" /\ idx <= Len(msgs)
                   /\ Len(offered) = Len(got) + 1

\* the Seq of the netlink header of frame f
FrameSeq(f) == Uint32(f, 8)

\* C18: the counter starts at 0 and is incremented before each send: the i-th
\* frame sent by a listener carries sequence number i, so the numbers are
\* strictly increasing and no two frames carry the same one.
C18_SeqIncreasing ==
    /\ seq = Len(sent)
    /\ caller = "start" => seq = 0
    /\ \A i \in 1..Len(sent) : FrameSeq(sent[i].buf) = i
    /\ \A i, j \in 1..Len(sent) :
         i < j => FrameSeq(sent[i].buf) < FrameSeq(sent[j].buf)

\* listen was sent on open and ignore on close
C18_Witness ==
    /\ Len(sent) = 2
    /\ sent[1].op = PROC_CN_MCAST_LISTEN
    /\ sent[2].op = PROC_CN_MCAST_IGNORE

----------------------------------------------------------------------------
(* The frame built by NetLink.send, over a range of sequence numbers *)

MaxSends == 3

\* values of listener.seq before a send, the byte boundaries of the counter
\* among them
SeqStarts == {0, 1, 255, 256, 65535, 16777215}

\* a listener whose socket is open and bound, with listener.seq drawn from
\* SeqStarts; readEvents is not running
EncInit ==
    /\ caller = "start"
    /\ listenErr = "nil"
    /\ closeErr = "nil"
    /\ sock = "open"
    /\ seq \in SeqStarts
    /\ sent = <<>>
    /\ pc = "none"
    /\ done = <<>>
    /\ chClosed = [c \in Channels |-> FALSE]
    /\ pending = NoValue
    /\ rx = NoRecv
    /\ msgs = <<>>
    /\ idx = 1
    /\ offered = <<>>
    /\ got = <<>>
    /\ stopPhase = "none"
    /\ readsError = FALSE

\* listener.send(op)
EncSend(op) ==
    /\ Len(sent) < MaxSends
    /\ \E sendErr \in SendErrnos :
         LET nl == send([sock |-> sock, seq |-> seq, sent |-> sent, err |-> "nil"],
                        op, sendErr)
         IN  /\ sock' = nl.sock
             /\ seq' = nl.seq
             /\ sent' = nl.sent
    /\ UNCHANGED <<callerVars, pc, done, chClosed, pending, rx, msgs, idx, offered, got,
                   stopPhase, readsError>>

EncNext == \E op \in {PROC_CN_MCAST_LISTEN, PROC_CN_MCAST_IGNORE} : EncSend(op)

EncSpec == EncInit /\ [][EncNext]_vars

\* the layers of a frame, read back field by field
DecNlMsghdr(b) ==
    [Len |-> Uint32(b, 0), Type |-> Uint16(b, 4), Flags |-> Uint16(b, 6),
     Seq |-> Uint32(b, 8), Pid |-> Uint32(b, 12)]

DecCnMsg(b) ==
    [Idx |-> Uint32(b, 0), Val |-> Uint32(b, 4), Seq |-> Uint32(b, 8),
     Ack |-> Uint32(b, 12), Len |-> Uint16(b, 16), Flags |-> Uint16(b, 18)]

\* C19: every frame built by send for listen or ignore is complete and its
\* lengths agree: the frame is as long as the Len of its netlink header, which
\* is NLMSG_HDRLEN + the size of cnMsg + 4; the Len of cnMsg is 4; the Id is
\* {CN_IDX_PROC, CN_VAL_PROC}; the last 4 bytes are the operation (listen 1,
\* ignore 2); and reading the layers back gives the sequence number the frame
\* was built with, the Id and the operation.
C19_FrameRoundTrip ==
    \A i \in 1..Len(sent) :
        LET f  == sent[i].buf
            h  == DecNlMsghdr(f)
            cn == DecCnMsg(SubSeq(f, NLMSG_HDRLEN + 1, NLMSG_HDRLEN + SizeofCnMsg))
            op == Uint32(f, NLMSG_HDRLEN + SizeofCnMsg)
        IN  /\ \A k \in 1..Len(f) : f[k] \in 0..255
            /\ Len(f) = h.Len
            /\ h.Len = NLMSG_HDRLEN + SizeofCnMsg + 4
            /\ h.Type = NLMSG_DONE
            /\ h.Seq = seq - Len(sent) + i
            /\ h.Pid = Getpid
            /\ cn.Idx = CN_IDX_PROC /\ cn.Val = CN_VAL_PROC
            /\ cn.Len = 4
            /\ op = sent[i].op
            /\ op \in {1, 2}
            /\ (op = 1) = (sent[i].op = PROC_CN_MCAST_LISTEN)

\* a listen frame and an ignore frame have been built, one of them with a
\* sequence number that takes more than one byte
C19_Witness ==
    /\ \E i \in 1..Len(sent) : sent[i].op = PROC_CN_MCAST_LISTEN
    /\ \E i \in 1..Len(sent) : sent[i].op = PROC_CN_MCAST_IGNORE
    /\ \E i \in 1..Len(sent) : FrameSeq(sent[i].buf) = 65536

\* C20: readEvents never sends on a closed channel and never closes a channel
\* twice, so it never panics: a value is only ever offered on an open channel,
\* and a channel is closed only once readEvents has returned with nothing
\* outstanding.
C20_NoSendOnClosed ==
    /\ pc # "panic"
    /\ pending # NoValue => ~chClosed[pending.ch]
    /\ (\E c \in Channels : chClosed[c]) => pc = "stopped" /\ pending = NoValue

\* readEvents is sending the error of a Recvfrom on the socket Close has
\* released
C20_Witness ==
    /\ caller = "closed"
    /\ pc = "sendErr"
    /\ pending.ch = "Error"
    /\ rx.err = "EBADF"

====
